---- MODULE Spec2Model ----
(***************************************************************************)
(* Library management: the Library aggregate of library.py with its Book   *)
(* (book.py), Member (member.py) and AttendanceTracker (attendance.py)     *)
(* parts, driven through the public operations the web routes of app.py    *)
(* call.  One action per public operation; every action models the whole   *)
(* call, including the calls it makes on Book, Member and the tracker.     *)
(*                                                                         *)
(* Descriptive fields that no operation reads (title, author, isbn,        *)
(* category, name, email, phone, purpose, and the free-text description of *)
(* a transaction, which is built from title and name) are not carried.     *)
(***************************************************************************)
EXTENDS Integers, Sequences, FiniteSets, TLC

\* ---------------------------------------------------------------- bounds
\* largest copies argument tried by add_book
MaxCopies == 3
\* cap on the length of Library.transactions: the lending side alone
MaxLog == 5
\* cap on the length of Library.transactions: the whole system
MaxLogAll == 4
\* cap on the length of Library.transactions: one member alone
MaxLogTrip == 7
\* cap on the length of attendance_records
MaxRecords == 2
\* cap on the clock, in ticks
MaxTime == 2
\* ticks of the clock per calendar day
TicksPerDay == 2
\* cap on the clock, in ticks, while loans age
MaxNow == 5
\* largest days argument tried by get_overdue_books
MaxDays == 2
\* cap on the length of Library.transactions while loans age
MaxLogOverdue == 5
\* largest limit argument tried by get_transaction_history
MaxLimit == 3
\* cap on the length of attendance_records under the peak-hours report
MaxPeakRecords == 3
\* largest number of books in a catalog that is searched
MaxCatalog == 2
\* largest number of fortnights the clock jumps under the notifications
MaxFortnights == 1
\* largest copies argument of the book two threads borrow at once
MaxRaceCopies == 2

\* ---------------------------------------------------------------- inputs
BookIds == {"b1", "b2"}
MemberIds == {"m1", "m2"}
\* ids presented at the desk: one that may be a member's, one that never is
VisitorIds == {"m1", "v1"}
\* "Student" stands for any type that is neither Regular nor Premium
MembershipTypes == {"Regular", "Premium", "Student"}
\* the copies argument: app.py passes int() of a form field, negative included
Copies == (0 - 1) .. MaxCopies
\* Python None for an unset exit_time
None == 0 - 1
\* strings, as lists of characters, for the fields of a book and for queries
Words == {<<"a">>, <<"A">>, <<"1", "A">>}
Queries == Words \cup {<< >>, <<"1">>}
\* the search_type argument: the four fields and one that is none of them
SearchTypes == {"title", "author", "category", "isbn", "publisher"}
\* the descriptive fields of a Book, book.py lines 10-13
BookFields == [title : Words, author : Words, category : Words, isbn : Words]
\* self.books.values(): the books of a catalog in insertion order
Catalogs == UNION {[1..n -> BookFields] : n \in 0..MaxCatalog}
\* the request threads of the web server that may be inside a call at once
Threads == {"t1", "t2"}

\* ------------------------------------------------------------- constants
\* max_books of a Premium member and of any other, member.py line 17
RegularMaxBooks == 3
PremiumMaxBooks == 5
\* the default days of get_overdue_books, library.py line 151
DefaultOverdueDays == 14

VARIABLES
    books,               \* Library.books: book_id -> Book
    members,             \* Library.members: member_id -> Member
    transactions,        \* Library.transactions
    attendance_records,  \* AttendanceTracker.attendance_records
    daily_stats,         \* AttendanceTracker.daily_stats: date -> counters
    now,                 \* the wall clock read by datetime.now()
    last,                \* the last public call: operation, arguments, outcome
    threads,             \* the request threads inside Library.borrow_book
    notification_service \* Library.notification_service: attached or None

vars == <<books, members, transactions, attendance_records, daily_stats, now, last,
          threads, notification_service>>

\* the state owned by the Library object
aggregate == <<books, members, transactions, attendance_records, daily_stats>>

\* ------------------------------------------------------- generic helpers
\* dict without one key (del d[k])
DictDel(d, k) == [x \in (DOMAIN d) \ {k} |-> d[x]]

\* dict with d[k] = v (insert or overwrite)
DictPut(d, k, v) == [x \in (DOMAIN d) \cup {k} |-> IF x = k THEN v ELSE d[x]]

\* x in list
InList(s, x) == \E i \in 1..Len(s) : s[i] = x

\* list.remove(x): drops the first occurrence of x
ListRemove(s, x) ==
    LET i == CHOOSE j \in 1..Len(s) : s[j] = x /\ \A k \in 1..(j - 1) : s[k] # x
    IN  [j \in 1..(Len(s) - 1) |-> IF j < i THEN s[j] ELSE s[j + 1]]

\* date.today() / datetime.date()
today(t) == t \div TicksPerDay

\* ------------------------------------------------------------------ Book
\* Book.__init__
Book(copies) ==
    [total_copies |-> copies, available_copies |-> copies, borrowed_by |-> <<>>]

is_available(book) == book.available_copies > 0

\* Book.borrow: the book after the call and the value returned
Book_borrow(book, member_id, t) ==
    IF is_available(book)
    THEN [ret |-> TRUE,
          book |-> [book EXCEPT !.available_copies = @ - 1,
                                !.borrowed_by = DictPut(@, member_id, t)]]
    ELSE [ret |-> FALSE, book |-> book]

\* the return that forgets to give the copy back
Book_return_book_keeps_count(book, member_id) ==
    IF member_id \in DOMAIN book.borrowed_by
    THEN [ret |-> TRUE, book |-> [book EXCEPT !.borrowed_by = DictDel(@, member_id)]]
    ELSE [ret |-> FALSE, book |-> book]

\* Book.return_book
Book_return_book(book, member_id) ==
    IF member_id \in DOMAIN book.borrowed_by
    THEN [ret |-> TRUE,
          book |-> [book EXCEPT !.available_copies = @ + 1,
                                !.borrowed_by = DictDel(@, member_id)]]
    ELSE [ret |-> FALSE, book |-> book]

\* ---------------------------------------------------------------- Member
\* the larger limit given to every type but Regular
Member_not_regular(membership_type, t) ==
    [membership_type |-> membership_type,
     join_date |-> t,
     borrowed_books |-> <<>>,
     borrowing_history |-> <<>>,
     max_books |-> IF membership_type # "Regular" THEN PremiumMaxBooks
                   ELSE RegularMaxBooks]

\* Member.__init__
Member(membership_type, t) ==
    [membership_type |-> membership_type,
     join_date |-> t,
     borrowed_books |-> <<>>,
     borrowing_history |-> <<>>,
     max_books |-> IF membership_type = "Premium" THEN PremiumMaxBooks
                   ELSE RegularMaxBooks]

\* the limit test off by one
can_borrow_off_by_one(member) == Len(member.borrowed_books) <= member.max_books

can_borrow(member) == Len(member.borrowed_books) < member.max_books

\* Member.borrow_book
Member_borrow_book(member, book_id) ==
    IF can_borrow(member)
    THEN [ret |-> TRUE,
          member |-> [member EXCEPT !.borrowed_books = Append(@, book_id)]]
    ELSE [ret |-> FALSE, member |-> member]

\* the return that writes no history
Member_return_book_no_history(member, book_id, t) ==
    IF InList(member.borrowed_books, book_id)
    THEN [ret |-> TRUE,
          member |-> [member EXCEPT !.borrowed_books = ListRemove(@, book_id)]]
    ELSE [ret |-> FALSE, member |-> member]

\* Member.return_book
Member_return_book(member, book_id, t) ==
    IF InList(member.borrowed_books, book_id)
    THEN [ret |-> TRUE,
          member |-> [member EXCEPT
                        !.borrowed_books = ListRemove(@, book_id),
                        !.borrowing_history = Append(@, <<book_id, t, t>>)]]
    ELSE [ret |-> FALSE, member |-> member]

\* --------------------------------------------------------------- Library
\* the entry written over the last one instead of appended
log_transaction_overwrite(log, action, t) ==
    IF log = <<>>
    THEN <<[timestamp |-> t, action |-> action]>>
    ELSE [log EXCEPT ![Len(log)] = [timestamp |-> t, action |-> action]]

\* Library._log_transaction
log_transaction(log, action, t) ==
    Append(log, [timestamp |-> t, action |-> action])

\* the record of a call on the lending side: result is "True" or "False",
\* the value returned, or the name of the exception the call ended in
Call(op, member_id, book_id, copies, result) ==
    [op |-> op, member_id |-> member_id, book_id |-> book_id,
     visitor_id |-> "-", visitor_type |-> "-", copies |-> copies,
     result |-> result, pre_available |-> 0, pre_borrowed |-> <<>>]

\* a request thread that is not inside a call
IdleThread == [pc |-> "idle", member_id |-> "-", book_id |-> "-", tmp |-> 0, result |-> "-"]

Init ==
    /\ books = <<>>
    /\ members = <<>>
    /\ transactions = <<>>
    /\ attendance_records = <<>>
    /\ daily_stats = <<>>
    /\ now = 0
    /\ last = Call("init", "-", "-", 0, "True")
    /\ threads = [t \in Threads |-> IdleThread]
    /\ notification_service = FALSE

\* a book added without the test for the id being taken
add_book_overwrite(book_id, copies) ==
    /\ books' = DictPut(books, book_id, Book(copies))
    /\ transactions' = log_transaction(transactions, "ADD_BOOK", now)
    /\ last' = Call("add_book", "-", book_id, copies, "True")
    /\ UNCHANGED <<members, attendance_records, daily_stats, now>>
    /\ UNCHANGED <<threads, notification_service>>

\* Library.add_book
add_book(book_id, copies) ==
    /\ IF book_id \in DOMAIN books
       THEN /\ last' = Call("add_book", "-", book_id, copies, "False")
            /\ UNCHANGED <<books, transactions>>
       ELSE /\ books' = DictPut(books, book_id, Book(copies))
            /\ transactions' = log_transaction(transactions, "ADD_BOOK", now)
            /\ last' = Call("add_book", "-", book_id, copies, "True")
    /\ UNCHANGED <<members, attendance_records, daily_stats, now>>
    /\ UNCHANGED <<threads, notification_service>>

\* removal without the test for copies on loan
remove_book_unchecked(book_id) ==
    /\ IF book_id \notin DOMAIN books
       THEN /\ last' = Call("remove_book", "-", book_id, 0, "False")
            /\ UNCHANGED <<books, transactions>>
       ELSE /\ books' = DictDel(books, book_id)
            /\ transactions' = log_transaction(transactions, "REMOVE_BOOK", now)
            /\ last' = Call("remove_book", "-", book_id, 0, "True")
    /\ UNCHANGED <<members, attendance_records, daily_stats, now>>
    /\ UNCHANGED <<threads, notification_service>>

\* Library.remove_book
remove_book(book_id) ==
    /\ IF book_id \notin DOMAIN books
       THEN /\ last' = Call("remove_book", "-", book_id, 0, "False")
            /\ UNCHANGED <<books, transactions>>
       ELSE IF books[book_id].available_copies < books[book_id].total_copies
       THEN /\ last' = Call("remove_book", "-", book_id, 0, "False")
            /\ UNCHANGED <<books, transactions>>
       ELSE /\ books' = DictDel(books, book_id)
            /\ transactions' = log_transaction(transactions, "REMOVE_BOOK", now)
            /\ last' = Call("remove_book", "-", book_id, 0, "True")
    /\ UNCHANGED <<members, attendance_records, daily_stats, now>>
    /\ UNCHANGED <<threads, notification_service>>

\* Library.add_member
add_member(member_id, membership_type) ==
    /\ IF member_id \in DOMAIN members
       THEN /\ last' = Call("add_member", member_id, "-", 0, "False")
            /\ UNCHANGED <<members, transactions>>
       ELSE /\ members' = DictPut(members, member_id, Member(membership_type, now))
            /\ transactions' = log_transaction(transactions, "ADD_MEMBER", now)
            /\ last' = Call("add_member", member_id, "-", 0, "True")
    /\ UNCHANGED <<books, attendance_records, daily_stats, now>>
    /\ UNCHANGED <<threads, notification_service>>

\* removal without the test for books still held
remove_member_unchecked(member_id) ==
    /\ IF member_id \notin DOMAIN members
       THEN /\ last' = Call("remove_member", member_id, "-", 0, "False")
            /\ UNCHANGED <<members, transactions>>
       ELSE /\ members' = DictDel(members, member_id)
            /\ transactions' = log_transaction(transactions, "REMOVE_MEMBER", now)
            /\ last' = Call("remove_member", member_id, "-", 0, "True")
    /\ UNCHANGED <<books, attendance_records, daily_stats, now>>
    /\ UNCHANGED <<threads, notification_service>>

\* Library.remove_member
remove_member(member_id) ==
    /\ IF member_id \notin DOMAIN members
       THEN /\ last' = Call("remove_member", member_id, "-", 0, "False")
            /\ UNCHANGED <<members, transactions>>
       ELSE IF members[member_id].borrowed_books # <<>>
       THEN /\ last' = Call("remove_member", member_id, "-", 0, "False")
            /\ UNCHANGED <<members, transactions>>
       ELSE /\ members' = DictDel(members, member_id)
            /\ transactions' = log_transaction(transactions, "REMOVE_MEMBER", now)
            /\ last' = Call("remove_member", member_id, "-", 0, "True")
    /\ UNCHANGED <<books, attendance_records, daily_stats, now>>
    /\ UNCHANGED <<threads, notification_service>>

\* the two-step mutation of Library.borrow_book, lines 126-130:
\* book.borrow(member_id) and member.borrow_book(book_id), short-circuit
borrow_process(member_id, book_id) ==
    LET br == Book_borrow(books[book_id], member_id, now)
        mr == IF br.ret THEN Member_borrow_book(members[member_id], book_id)
              ELSE [ret |-> FALSE, member |-> members[member_id]]
    IN  [ret |-> br.ret /\ mr.ret, book |-> br.book, member |-> mr.member]

\* Library.borrow_book
borrow_book(member_id, book_id) ==
    /\ LET rejected == Call("borrow_book", member_id, book_id, 0, "False") IN
       IF member_id \notin DOMAIN members \/ book_id \notin DOMAIN books
       THEN /\ last' = rejected
            /\ UNCHANGED <<books, members, transactions>>
       ELSE IF ~can_borrow(members[member_id])
       THEN /\ last' = rejected
            /\ UNCHANGED <<books, members, transactions>>
       ELSE IF ~is_available(books[book_id])
       THEN /\ last' = rejected
            /\ UNCHANGED <<books, members, transactions>>
       ELSE LET p == borrow_process(member_id, book_id) IN
            /\ books' = [books EXCEPT ![book_id] = p.book]
            /\ members' = [members EXCEPT ![member_id] = p.member]
            /\ transactions' = IF p.ret
                               THEN log_transaction(transactions, "BORROW", now)
                               ELSE transactions
            /\ last' = [Call("borrow_book", member_id, book_id, 0,
                             IF p.ret THEN "True" ELSE "False")
                        EXCEPT !.pre_available = books[book_id].available_copies,
                               !.pre_borrowed = members[member_id].borrowed_books]
    /\ UNCHANGED <<attendance_records, daily_stats, now>>
    /\ UNCHANGED <<threads, notification_service>>

\* the two-step mutation of Library.return_book, lines 144-148:
\* book.return_book(member_id) and member.return_book(book_id), short-circuit
return_process(member_id, book_id) ==
    LET br == Book_return_book(books[book_id], member_id)
        mr == IF br.ret THEN Member_return_book(members[member_id], book_id, now)
              ELSE [ret |-> FALSE, member |-> members[member_id]]
    IN  [ret |-> br.ret /\ mr.ret, book |-> br.book, member |-> mr.member]

\* Library.return_book
return_book(member_id, book_id) ==
    /\ LET rejected == Call("return_book", member_id, book_id, 0, "False") IN
       IF member_id \notin DOMAIN members \/ book_id \notin DOMAIN books
       THEN /\ last' = rejected
            /\ UNCHANGED <<books, members, transactions>>
       ELSE IF ~InList(members[member_id].borrowed_books, book_id)
       THEN /\ last' = rejected
            /\ UNCHANGED <<books, members, transactions>>
       ELSE LET p == return_process(member_id, book_id) IN
            /\ books' = [books EXCEPT ![book_id] = p.book]
            /\ members' = [members EXCEPT ![member_id] = p.member]
            /\ transactions' = IF p.ret
                               THEN log_transaction(transactions, "RETURN", now)
                               ELSE transactions
            /\ last' = Call("return_book", member_id, book_id, 0,
                            IF p.ret THEN "True" ELSE "False")
    /\ UNCHANGED <<attendance_records, daily_stats, now>>
    /\ UNCHANGED <<threads, notification_service>>

\* ----------------------------------------------------- AttendanceTracker
\* AttendanceRecord.__init__
AttendanceRecord(visitor_id, visitor_type, t) ==
    [visitor_id |-> visitor_id, visitor_type |-> visitor_type,
     entry_time |-> t, exit_time |-> None, is_active |-> TRUE]

\* the exit time set with the record left active
AttendanceRecord_check_out_keeps_active(record, t) ==
    [record EXCEPT !.exit_time = t]

\* AttendanceRecord.check_out
AttendanceRecord_check_out(record, t) ==
    [record EXCEPT !.exit_time = t, !.is_active = FALSE]

\* the presence test reading the flag the wrong way round
is_currently_present_closed(records, visitor_id) ==
    \E i \in 1..Len(records) :
        records[i].visitor_id = visitor_id /\ ~records[i].is_active

\* AttendanceTracker.is_currently_present
is_currently_present(records, visitor_id) ==
    \E i \in 1..Len(records) :
        records[i].visitor_id = visitor_id /\ records[i].is_active

\* the fresh counters of a date, attendance.py lines 59-64
NewStats == [total_visitors |-> 0, members |-> 0, visitors |-> 0, staff |-> 0]

\* visitor_type.value + 's', attendance.py line 67
StatsKey(visitor_type) ==
    CASE visitor_type = "member" -> "members"
      [] visitor_type = "visitor" -> "visitors"
      [] visitor_type = "staff" -> "staffs"

\* AttendanceTracker.check_in: the records and counters after the call and
\* its outcome; line 67 raises KeyError when the counters lack the key, after
\* the record was appended and total_visitors counted
check_in(records, stats, visitor_id, visitor_type, t) ==
    IF is_currently_present(records, visitor_id)
    THEN [result |-> "False", records |-> records, stats |-> stats]
    ELSE LET appended == Append(records, AttendanceRecord(visitor_id, visitor_type, t))
             day == today(t)
             opened == IF day \in DOMAIN stats THEN stats
                       ELSE DictPut(stats, day, NewStats)
             counted == [opened EXCEPT ![day].total_visitors = @ + 1]
             key == StatsKey(visitor_type)
         IN  IF key \in DOMAIN counted[day]
             THEN [result |-> "True", records |-> appended,
                   stats |-> [counted EXCEPT ![day][key] = @ + 1]]
             ELSE [result |-> "KeyError", records |-> appended, stats |-> counted]

\* AttendanceTracker.get_current_visitors
get_current_visitors(records) == SelectSeq(records, LAMBDA r : r.is_active)

\* AttendanceTracker.get_daily_attendance
get_daily_attendance(records, target_date) ==
    SelectSeq(records, LAMBDA r : today(r.entry_time) = target_date)

\* AttendanceTracker.get_daily_stats
get_daily_stats(stats, target_date) ==
    IF target_date \in DOMAIN stats THEN stats[target_date] ELSE NewStats

\* the first record of the id, whether still active or not
ActiveIndex_first(records, visitor_id) ==
    CHOOSE i \in 1..Len(records) :
        /\ records[i].visitor_id = visitor_id
        /\ \A j \in 1..(i - 1) : records[j].visitor_id # visitor_id

\* the record AttendanceTracker.check_out closes: the last active one of the id
ActiveIndex(records, visitor_id) ==
    CHOOSE i \in 1..Len(records) :
        /\ records[i].visitor_id = visitor_id /\ records[i].is_active
        /\ \A j \in (i + 1)..Len(records) :
              ~(records[j].visitor_id = visitor_id /\ records[j].is_active)

\* the record of a call on the attendance side
Visit(op, visitor_id, visitor_type, result) ==
    [op |-> op, member_id |-> "-", book_id |-> "-",
     visitor_id |-> visitor_id, visitor_type |-> visitor_type, copies |-> 0,
     result |-> result, pre_available |-> 0, pre_borrowed |-> <<>>]

\* the member check-in without the look-up in the directory
check_in_member_unchecked(member_id) ==
    /\ LET c == check_in(attendance_records, daily_stats, member_id, "member", now) IN
       /\ attendance_records' = c.records
       /\ daily_stats' = c.stats
       /\ last' = Visit("check_in_member", member_id, "member", c.result)
    /\ UNCHANGED <<books, members, transactions, now>>
    /\ UNCHANGED <<threads, notification_service>>

\* Library.check_in_member
check_in_member(member_id) ==
    /\ IF member_id \notin DOMAIN members
       THEN /\ last' = Visit("check_in_member", member_id, "member", "False")
            /\ UNCHANGED <<attendance_records, daily_stats>>
       ELSE LET c == check_in(attendance_records, daily_stats, member_id, "member", now) IN
            /\ attendance_records' = c.records
            /\ daily_stats' = c.stats
            /\ last' = Visit("check_in_member", member_id, "member", c.result)
    /\ UNCHANGED <<books, members, transactions, now>>
    /\ UNCHANGED <<threads, notification_service>>

\* the visitor check-in that writes to the transaction log as well
check_in_visitor_logged(visitor_id) ==
    /\ LET c == check_in(attendance_records, daily_stats, visitor_id, "visitor", now) IN
       /\ attendance_records' = c.records
       /\ daily_stats' = c.stats
       /\ last' = Visit("check_in_visitor", visitor_id, "visitor", c.result)
    /\ transactions' = log_transaction(transactions, "CHECK_IN", now)
    /\ UNCHANGED <<books, members, now>>
    /\ UNCHANGED <<threads, notification_service>>

\* Library.check_in_visitor
check_in_visitor(visitor_id) ==
    /\ LET c == check_in(attendance_records, daily_stats, visitor_id, "visitor", now) IN
       /\ attendance_records' = c.records
       /\ daily_stats' = c.stats
       /\ last' = Visit("check_in_visitor", visitor_id, "visitor", c.result)
    /\ UNCHANGED <<books, members, transactions, now>>
    /\ UNCHANGED <<threads, notification_service>>

\* Library.check_in_staff
check_in_staff(staff_id) ==
    /\ LET c == check_in(attendance_records, daily_stats, staff_id, "staff", now) IN
       /\ attendance_records' = c.records
       /\ daily_stats' = c.stats
       /\ last' = Visit("check_in_staff", staff_id, "staff", c.result)
    /\ UNCHANGED <<books, members, transactions, now>>
    /\ UNCHANGED <<threads, notification_service>>

\* Library.check_out, AttendanceTracker.check_out
check_out(visitor_id) ==
    /\ IF is_currently_present(attendance_records, visitor_id)
       THEN LET i == ActiveIndex(attendance_records, visitor_id) IN
            /\ attendance_records' =
                  [attendance_records EXCEPT
                     ![i] = AttendanceRecord_check_out(attendance_records[i], now)]
            /\ last' = Visit("check_out", visitor_id, "-", "True")
       ELSE /\ last' = Visit("check_out", visitor_id, "-", "False")
            /\ UNCHANGED attendance_records
    /\ UNCHANGED <<books, members, transactions, daily_stats, now>>
    /\ UNCHANGED <<threads, notification_service>>

\* the passage of time between two calls
Tick ==
    /\ now < MaxTime
    /\ now' = now + 1
    /\ UNCHANGED <<books, members, transactions, attendance_records, daily_stats, last>>
    /\ UNCHANGED <<threads, notification_service>>

\* ------------------------------------------------------------ reports
\* the record of a read-only call: operation, argument, value returned
Query(op, argument, result) == [op |-> op, argument |-> argument, result |-> result]

\* datetime.hour, in ticks since midnight
hour(t) == t % TicksPerDay

\* the dict hourly_counts of get_peak_hours, lines 146-151, as the list of
\* its <<hour, count>> items in insertion order
RECURSIVE hourly_counts(_)
hourly_counts(daily_records) ==
    IF daily_records = <<>> THEN <<>>
    ELSE LET counts == hourly_counts(SubSeq(daily_records, 1, Len(daily_records) - 1))
             h == hour(daily_records[Len(daily_records)].entry_time)
         IN  IF \E i \in 1..Len(counts) : counts[i][1] = h
             THEN [i \in 1..Len(counts) |->
                     IF counts[i][1] = h THEN <<h, counts[i][2] + 1>> ELSE counts[i]]
             ELSE Append(counts, <<h, 1>>)

\* the item of the largest count, the last such item on a tie
max_by_count_last(items) ==
    items[CHOOSE i \in 1..Len(items) :
            /\ \A j \in 1..Len(items) : items[j][2] <= items[i][2]
            /\ \A j \in (i + 1)..Len(items) : items[j][2] < items[i][2]]

\* max(items, key=lambda x: x[1]): the first item of the largest count
max_by_count(items) ==
    items[CHOOSE i \in 1..Len(items) :
            /\ \A j \in 1..Len(items) : items[j][2] <= items[i][2]
            /\ \A j \in 1..(i - 1) : items[j][2] < items[i][2]]

\* the value of AttendanceTracker.get_peak_hours, lines 146-159
peak_hours(records, target_date) ==
    LET counts == hourly_counts(get_daily_attendance(records, target_date))
        peak_hour == IF counts # <<>> THEN max_by_count(counts) ELSE <<0, 0>>
    IN  [hourly_breakdown |-> counts,
         peak_hour |-> peak_hour[1],
         peak_count |-> peak_hour[2]]

\* AttendanceTracker.get_peak_hours
get_peak_hours(target_date) ==
    /\ last' = Query("get_peak_hours", target_date,
                     peak_hours(attendance_records, target_date))
    /\ UNCHANGED <<books, members, transactions, attendance_records, daily_stats,
                   now, threads, notification_service>>

\* timedelta.days of the time from t0 to t1, t0 <= t1
days_between(t0, t1) == (t1 - t0) \div TicksPerDay

\* the entries with days_overdue counted from the threshold
overdue_books_past_threshold(bks, t, days) ==
    {[book_id |-> b, member_id |-> m, borrow_date |-> bks[b].borrowed_by[m],
      days_overdue |-> days_between(bks[b].borrowed_by[m], t) - days] :
        <<b, m>> \in {x \in (DOMAIN bks) \X MemberIds :
                        /\ x[2] \in DOMAIN bks[x[1]].borrowed_by
                        /\ bks[x[1]].borrowed_by[x[2]] < t - days * TicksPerDay}}

\* the entries Library.get_overdue_books builds, lines 153-167; the order of
\* the list, which is the order of two dicts, is not carried
overdue_books(bks, t, days) ==
    {[book_id |-> b, member_id |-> m, borrow_date |-> bks[b].borrowed_by[m],
      days_overdue |-> days_between(bks[b].borrowed_by[m], t)] :
        <<b, m>> \in {x \in (DOMAIN bks) \X MemberIds :
                        /\ x[2] \in DOMAIN bks[x[1]].borrowed_by
                        /\ bks[x[1]].borrowed_by[x[2]] < t - days * TicksPerDay}}

\* Library.get_overdue_books
get_overdue_books(days) ==
    /\ last' = Query("get_overdue_books", days, overdue_books(books, now, days))
    /\ UNCHANGED <<books, members, transactions, attendance_records, daily_stats,
                   now, threads, notification_service>>

\* the passage of time while loans age
TickLoan ==
    /\ now < MaxNow
    /\ now' = now + 1
    /\ UNCHANGED <<books, members, transactions, attendance_records, daily_stats,
                   last, threads, notification_service>>

\* Python s[start:], for a start of either sign
SliceFrom(s, start) ==
    LET n == Len(s)
        i == IF start < 0
             THEN (IF n + start < 0 THEN 0 ELSE n + start)
             ELSE (IF start > n THEN n ELSE start)
    IN  SubSeq(s, i + 1, n)

\* the first limit entries in place of the last
transaction_history_oldest(log, limit) ==
    IF limit # 0 THEN SubSeq(log, 1, IF limit > Len(log) THEN Len(log) ELSE limit)
    ELSE log

\* the value of Library.get_transaction_history, line 197
transaction_history(log, limit) ==
    IF limit # 0 THEN SliceFrom(log, 0 - limit) ELSE log

\* Library.get_transaction_history
get_transaction_history(limit) ==
    /\ last' = Query("get_transaction_history", limit,
                     transaction_history(transactions, limit))
    /\ UNCHANGED <<books, members, transactions, attendance_records, daily_stats,
                   now, threads, notification_service>>

\* str.lower, character by character
lower_char(c) == IF c = "A" THEN "a" ELSE c

lower(str) == [i \in 1..Len(str) |-> lower_char(str[i])]

\* sub in str, for strings
Contains(sub, str) ==
    \E i \in 0..(Len(str) - Len(sub)) : SubSeq(str, i + 1, i + Len(sub)) = sub

\* the value of Library.search_books, lines 50-63, over the books in values;
\* line 51 lowers the query before any field is looked at
search_books_over(values, query, search_type) ==
    LET lowered == lower(query) IN
    SelectSeq(values, LAMBDA book :
        \/ search_type = "title" /\ Contains(lowered, lower(book.title))
        \/ search_type = "author" /\ Contains(lowered, lower(book.author))
        \/ search_type = "category" /\ Contains(lowered, lower(book.category))
        \/ search_type = "isbn" /\ Contains(lowered, book.isbn))

\* a search that has been asked for and not yet made; the descriptive fields
\* are not part of books, so the catalog to iterate comes with the arguments
SearchRequest(values, query, search_type) ==
    Query("search_books_request",
          [values |-> values, query |-> query, search_type |-> search_type],
          << >>)

\* Library.search_books
search_books ==
    /\ last.op = "search_books_request"
    /\ last' = Query("search_books", last.argument,
                     search_books_over(last.argument.values, last.argument.query,
                                       last.argument.search_type))
    /\ UNCHANGED <<books, members, transactions, attendance_records, daily_stats,
                   now, threads, notification_service>>

\* ------------------------------------------------------ notifications
\* the record of a sending call: the value returned, the send_email calls
\* made in order (recipient, and whether the transport delivered), and the
\* exception that left the call, if any
Sent(op, argument, result, attempts, raised) ==
    [op |-> op, argument |-> argument, result |-> result,
     attempts |-> attempts, raised |-> raised]

\* the orders in which the elements of a set can be listed
Orders(S) ==
    {f \in [1..Cardinality(S) -> S] : \A i, j \in 1..Cardinality(S) :
                                          i # j => f[i] # f[j]}

\* the number of delivered sends among attempts
Delivered(attempts) ==
    Cardinality({i \in 1..Len(attempts) : attempts[i].delivered})

\* a loop that a failed send leaves: the sends up to the first failure
send_loop_aborting(recipients, outcomes) ==
    LET stop == IF \E i \in 1..Len(recipients) : ~outcomes[i]
                THEN CHOOSE i \in 1..Len(recipients) :
                        ~outcomes[i] /\ \A j \in 1..(i - 1) : outcomes[j]
                ELSE Len(recipients)
    IN  [i \in 1..stop |-> [to |-> recipients[i], delivered |-> outcomes[i]]]

\* the for loops of NotificationService.send_bulk_emails and
\* send_overdue_reminders: send_email is called once per recipient, and its
\* try/except (notifications.py lines 18-32) turns a failure of the
\* transport into False
send_loop(recipients, outcomes) ==
    [i \in 1..Len(recipients) |-> [to |-> recipients[i], delivered |-> outcomes[i]]]

\* Library.setup_notifications
setup_notifications ==
    /\ notification_service' = TRUE
    /\ last' = Sent("setup_notifications", "-", 0, << >>, "-")
    /\ UNCHANGED <<books, members, transactions, attendance_records, daily_stats,
                   now, threads>>

\* Library.send_overdue_reminders; item['member'] is None for a borrower who
\* is not a member, and member.name (notifications.py line 51) then raises
send_overdue_reminders ==
    /\ IF ~notification_service
       THEN last' = Sent("send_overdue_reminders", "-", 0, << >>, "-")
       ELSE \E items \in Orders(overdue_books(books, now, DefaultOverdueDays)) :
            \E outcomes \in [1..Len(items) -> BOOLEAN] :
               LET known(i) == items[i].member_id \in DOMAIN members
                   attempts == send_loop(items, outcomes)
               IN  IF \A i \in 1..Len(items) : known(i)
                   THEN last' = Sent("send_overdue_reminders", "-",
                                     Delivered(attempts), attempts, "-")
                   ELSE LET stop == CHOOSE i \in 1..Len(items) :
                                       ~known(i) /\ \A j \in 1..(i - 1) : known(j)
                        IN  last' = Sent("send_overdue_reminders", "-", 0,
                                         SubSeq(attempts, 1, stop - 1),
                                         "AttributeError")
    /\ UNCHANGED <<books, members, transactions, attendance_records, daily_stats,
                   now, threads, notification_service>>

\* Library.send_notification
send_notification(member_id, outcome) ==
    /\ IF ~notification_service \/ member_id \notin DOMAIN members
       THEN last' = Sent("send_notification", member_id, FALSE, << >>, "-")
       ELSE last' = Sent("send_notification", member_id, outcome,
                         send_loop(<<member_id>>, <<outcome>>), "-")
    /\ UNCHANGED <<books, members, transactions, attendance_records, daily_stats,
                   now, threads, notification_service>>

\* Library.send_bulk_notification
send_bulk_notification ==
    /\ IF ~notification_service
       THEN last' = Sent("send_bulk_notification", "-", 0, << >>, "-")
       ELSE \E member_emails \in Orders(DOMAIN members) :
            \E outcomes \in [1..Len(member_emails) -> BOOLEAN] :
               LET attempts == send_loop(member_emails, outcomes)
               IN  last' = Sent("send_bulk_notification", "-",
                                Delivered(attempts), attempts, "-")
    /\ UNCHANGED <<books, members, transactions, attendance_records, daily_stats,
                   now, threads, notification_service>>

\* the clock jumping past the default overdue period
Fortnight ==
    /\ now < MaxFortnights * (DefaultOverdueDays + 1) * TicksPerDay
    /\ now' = now + (DefaultOverdueDays + 1) * TicksPerDay
    /\ UNCHANGED <<books, members, transactions, attendance_records, daily_stats,
                   last, threads, notification_service>>

\* ------------------------------------- Library.borrow_book, step by step
\* The server of app.py runs each request on its own thread and the_library
\* is shared without a lock, so the reads and writes below interleave.

\* thread t leaves the call with a return value
Returns(t, value) == [threads EXCEPT ![t].pc = "done", ![t].result = value]

\* thread t moves on to the statement at pc
Goto(t, pc) == [threads EXCEPT ![t].pc = pc]

\* no request thread is inside a call
AllIdle == \A t \in Threads : threads[t].pc = "idle"

\* library.py lines 113-117: the two look-ups and the test for a missing one
BorrowCall(t, member_id, book_id) ==
    /\ threads[t].pc = "idle"
    /\ threads' =
          IF member_id \notin DOMAIN members \/ book_id \notin DOMAIN books
          THEN [threads EXCEPT ![t] = [pc |-> "done", member_id |-> member_id,
                                       book_id |-> book_id, tmp |-> 0,
                                       result |-> "False"]]
          ELSE [threads EXCEPT ![t] = [pc |-> "can_borrow", member_id |-> member_id,
                                       book_id |-> book_id, tmp |-> 0,
                                       result |-> "-"]]
    /\ UNCHANGED <<books, members, transactions, attendance_records, daily_stats, now, last,
                   notification_service>>

\* library.py lines 119-120: member.can_borrow()
BorrowCanBorrow(t) ==
    /\ threads[t].pc = "can_borrow"
    /\ threads' = IF can_borrow(members[threads[t].member_id])
                  THEN Goto(t, "is_available")
                  ELSE Returns(t, "False")
    /\ UNCHANGED <<books, members, transactions, attendance_records, daily_stats, now, last,
                   notification_service>>

\* library.py lines 122-123: book.is_available()
BorrowIsAvailable(t) ==
    /\ threads[t].pc = "is_available"
    /\ threads' = IF is_available(books[threads[t].book_id])
                  THEN Goto(t, "book_test")
                  ELSE Returns(t, "False")
    /\ UNCHANGED <<books, members, transactions, attendance_records, daily_stats, now, last,
                   notification_service>>

\* book.py line 24: the second availability test, inside Book.borrow; when
\* it fails the and of library.py line 126 is false and line 130 returns
BookBorrowTest(t) ==
    /\ threads[t].pc = "book_test"
    /\ threads' = IF is_available(books[threads[t].book_id])
                  THEN Goto(t, "book_load")
                  ELSE Returns(t, "False")
    /\ UNCHANGED <<books, members, transactions, attendance_records, daily_stats, now, last,
                   notification_service>>

\* book.py line 25, first half: available_copies is read
BookBorrowLoad(t) ==
    /\ threads[t].pc = "book_load"
    /\ threads' = [threads EXCEPT
                     ![t].pc = "book_store",
                     ![t].tmp = books[threads[t].book_id].available_copies]
    /\ UNCHANGED <<books, members, transactions, attendance_records, daily_stats, now, last,
                   notification_service>>

\* book.py line 25, second half: the value read, less one, is written back
BookBorrowStore(t) ==
    /\ threads[t].pc = "book_store"
    /\ books' = [books EXCEPT
                   ![threads[t].book_id].available_copies = threads[t].tmp - 1]
    /\ threads' = Goto(t, "book_mark")
    /\ UNCHANGED <<members, transactions, attendance_records, daily_stats, now, last,
                   notification_service>>

\* book.py lines 26-27: borrowed_by[member_id] = datetime.now()
BookBorrowMark(t) ==
    /\ threads[t].pc = "book_mark"
    /\ books' = [books EXCEPT
                   ![threads[t].book_id].borrowed_by =
                       DictPut(@, threads[t].member_id, now)]
    /\ threads' = Goto(t, "member_test")
    /\ UNCHANGED <<members, transactions, attendance_records, daily_stats, now, last,
                   notification_service>>

\* member.py line 25: the second can_borrow test, inside Member.borrow_book;
\* when it fails library.py line 130 returns False with the book side changed
MemberBorrowTest(t) ==
    /\ threads[t].pc = "member_test"
    /\ threads' = IF can_borrow(members[threads[t].member_id])
                  THEN Goto(t, "member_append")
                  ELSE Returns(t, "False")
    /\ UNCHANGED <<books, members, transactions, attendance_records, daily_stats, now, last,
                   notification_service>>

\* member.py lines 26-27: borrowed_books.append(book_id)
MemberBorrowAppend(t) ==
    /\ threads[t].pc = "member_append"
    /\ members' = [members EXCEPT
                     ![threads[t].member_id].borrowed_books =
                         Append(@, threads[t].book_id)]
    /\ threads' = Goto(t, "log")
    /\ UNCHANGED <<books, transactions, attendance_records, daily_stats, now, last,
                   notification_service>>

\* library.py lines 127-128: the BORROW entry, and True is returned
BorrowLog(t) ==
    /\ threads[t].pc = "log"
    /\ transactions' = log_transaction(transactions, "BORROW", now)
    /\ threads' = Returns(t, "True")
    /\ UNCHANGED <<books, members, attendance_records, daily_stats, now, last,
                   notification_service>>

\* ------------------------------------------------------- specifications
\* the whole system: every public operation, around one book and one member
Next ==
    \/ \E c \in Copies : add_book("b1", c) /\ Len(transactions') <= MaxLogAll
    \/ remove_book("b1") /\ Len(transactions') <= MaxLogAll
    \/ \E ty \in MembershipTypes :
          add_member("m1", ty) /\ Len(transactions') <= MaxLogAll
    \/ remove_member("m1") /\ Len(transactions') <= MaxLogAll
    \/ borrow_book("m1", "b1") /\ Len(transactions') <= MaxLogAll
    \/ return_book("m1", "b1") /\ Len(transactions') <= MaxLogAll
    \/ \E v \in VisitorIds :
          check_in_member(v) /\ Len(attendance_records') <= MaxRecords
    \/ \E v \in VisitorIds :
          check_in_visitor(v) /\ Len(attendance_records') <= MaxRecords
    \/ \E v \in VisitorIds :
          check_in_staff(v) /\ Len(attendance_records') <= MaxRecords
    \/ \E v \in VisitorIds : check_out(v)

Spec == Init /\ [][Next]_vars

\* the lending side alone, to a longer transaction log
NextLending ==
    \/ \E b \in BookIds, c \in Copies :
          add_book(b, c) /\ Len(transactions') <= MaxLog
    \/ \E b \in BookIds : remove_book(b) /\ Len(transactions') <= MaxLog
    \/ \E m \in MemberIds, ty \in MembershipTypes :
          add_member(m, ty) /\ Len(transactions') <= MaxLog
    \/ \E m \in MemberIds : remove_member(m) /\ Len(transactions') <= MaxLog
    \/ \E m \in MemberIds, b \in BookIds :
          borrow_book(m, b) /\ Len(transactions') <= MaxLog
    \/ \E m \in MemberIds, b \in BookIds :
          return_book(m, b) /\ Len(transactions') <= MaxLog

SpecLending == Init /\ [][NextLending]_vars

\* one Regular member and books of at least one copy, to a longer log still
NextTrip ==
    \/ \E b \in BookIds, c \in 1..MaxCopies :
          add_book(b, c) /\ Len(transactions') <= MaxLogTrip
    \/ \E b \in BookIds : remove_book(b) /\ Len(transactions') <= MaxLogTrip
    \/ add_member("m1", "Regular") /\ Len(transactions') <= MaxLogTrip
    \/ remove_member("m1") /\ Len(transactions') <= MaxLogTrip
    \/ \E b \in BookIds : borrow_book("m1", b) /\ Len(transactions') <= MaxLogTrip
    \/ \E b \in BookIds : return_book("m1", b) /\ Len(transactions') <= MaxLogTrip

SpecTrip == Init /\ [][NextTrip]_vars

\* the attendance side with the clock and the member directory it consults
NextAttendance ==
    \/ \E ty \in MembershipTypes :
          add_member("m1", ty) /\ Len(transactions') <= MaxLogAll
    \/ remove_member("m1") /\ Len(transactions') <= MaxLogAll
    \/ \E v \in VisitorIds :
          check_in_member(v) /\ Len(attendance_records') <= MaxRecords
    \/ \E v \in VisitorIds :
          check_in_visitor(v) /\ Len(attendance_records') <= MaxRecords
    \/ \E v \in VisitorIds :
          check_in_staff(v) /\ Len(attendance_records') <= MaxRecords
    \/ \E v \in VisitorIds : check_out(v)
    \/ Tick

SpecAttendance == Init /\ [][NextAttendance]_vars

\* two request threads borrowing at once, after a serial set-up of one book
\* and the members
NextRace ==
    \/ \E c \in 1..MaxRaceCopies : AllIdle /\ add_book("b1", c)
    \/ \E m \in MemberIds : AllIdle /\ add_member(m, "Regular")
    \/ \E t \in Threads, m \in MemberIds : BorrowCall(t, m, "b1")
    \/ \E t \in Threads : BorrowCanBorrow(t)
    \/ \E t \in Threads : BorrowIsAvailable(t)
    \/ \E t \in Threads : BookBorrowTest(t)
    \/ \E t \in Threads : BookBorrowLoad(t)
    \/ \E t \in Threads : BookBorrowStore(t)
    \/ \E t \in Threads : BookBorrowMark(t)
    \/ \E t \in Threads : MemberBorrowTest(t)
    \/ \E t \in Threads : MemberBorrowAppend(t)
    \/ \E t \in Threads : BorrowLog(t)

SpecRace == Init /\ [][NextRace]_vars

\* loans of one book ageing on the clock, and the overdue report
NextOverdue ==
    \/ add_book("b1", 2) /\ Len(transactions') <= MaxLogOverdue
    \/ \E m \in MemberIds :
          add_member(m, "Regular") /\ Len(transactions') <= MaxLogOverdue
    \/ \E m \in MemberIds :
          borrow_book(m, "b1") /\ Len(transactions') <= MaxLogOverdue
    \/ \E m \in MemberIds :
          return_book(m, "b1") /\ Len(transactions') <= MaxLogOverdue
    \/ \E d \in 0..MaxDays : get_overdue_books(d)
    \/ TickLoan

SpecOverdue == Init /\ [][NextOverdue]_vars

\* one book and one member filling the log, and the history report
NextHistory ==
    \/ add_book("b1", 1) /\ Len(transactions') <= MaxLog
    \/ remove_book("b1") /\ Len(transactions') <= MaxLog
    \/ add_member("m1", "Regular") /\ Len(transactions') <= MaxLog
    \/ remove_member("m1") /\ Len(transactions') <= MaxLog
    \/ borrow_book("m1", "b1") /\ Len(transactions') <= MaxLog
    \/ return_book("m1", "b1") /\ Len(transactions') <= MaxLog
    \/ \E limit \in 0..MaxLimit : get_transaction_history(limit)

SpecHistory == Init /\ [][NextHistory]_vars

\* visitors coming and going over two days, and the peak-hours report
NextPeak ==
    \/ \E v \in VisitorIds :
          check_in_visitor(v) /\ Len(attendance_records') <= MaxPeakRecords
    \/ \E v \in VisitorIds : check_out(v)
    \/ \E d \in 0..today(MaxTime) : get_peak_hours(d)
    \/ Tick

SpecPeak == Init /\ [][NextPeak]_vars

\* one search of a catalog, for every catalog, query and field
InitSearch ==
    /\ books = <<>>
    /\ members = <<>>
    /\ transactions = <<>>
    /\ attendance_records = <<>>
    /\ daily_stats = <<>>
    /\ now = 0
    /\ threads = [t \in Threads |-> IdleThread]
    /\ notification_service = FALSE
    /\ \E values \in Catalogs, query \in Queries, search_type \in SearchTypes :
          last = SearchRequest(values, query, search_type)

NextSearch == search_books

SpecSearch == InitSearch /\ [][NextSearch]_vars

\* members, loans that grow overdue, and the three sending operations
NextNotify ==
    \/ add_book("b1", 2) /\ Len(transactions') <= MaxLogOverdue
    \/ \E m \in MemberIds :
          add_member(m, "Regular") /\ Len(transactions') <= MaxLogOverdue
    \/ \E m \in MemberIds :
          remove_member(m) /\ Len(transactions') <= MaxLogOverdue
    \/ \E m \in MemberIds :
          borrow_book(m, "b1") /\ Len(transactions') <= MaxLogOverdue
    \/ setup_notifications
    \/ send_overdue_reminders
    \/ \E m \in MemberIds, outcome \in BOOLEAN : send_notification(m, outcome)
    \/ send_bulk_notification
    \/ Fortnight

SpecNotify == Init /\ [][NextNotify]_vars

\* ================================================================ claims
\* book_id in member.borrowed_books, written out
Holds(m, b) ==
    \E i \in 1..Len(members[m].borrowed_books) : members[m].borrowed_books[i] = b

\* the log grew by exactly one entry, tagged action
Logged(action) ==
    /\ Len(transactions') = Len(transactions) + 1
    /\ SubSeq(transactions', 1, Len(transactions)) = transactions
    /\ transactions'[Len(transactions')].action = action

\* C1: after any sequence of lending operations every book in the catalog
\* has available_copies + |borrowed_by| = total_copies.
C1_CopiesBalance ==
    \A b \in DOMAIN books :
        books[b].available_copies + Cardinality(DOMAIN books[b].borrowed_by)
            = books[b].total_copies

\* C2: every book_id in a member's borrowed_books is in the catalog, and the
\* member is a key of that book's borrowed_by.
C2_BorrowedBooksBacked ==
    \A m \in DOMAIN members : \A b \in BookIds :
        Holds(m, b) => /\ b \in DOMAIN books
                       /\ m \in DOMAIN books[b].borrowed_by

\* no member's borrowed_books lists a book_id twice
NoDuplicates ==
    \A m \in DOMAIN members :
        \A i, j \in 1..Len(members[m].borrowed_books) :
            members[m].borrowed_books[i] = members[m].borrowed_books[j] => i = j

\* C3: borrowed_books never lists a book_id twice: borrow_book(m, b) called
\* while m already holds b returns False and changes nothing.
C3_NoDoubleBorrow ==
    /\ []NoDuplicates
    /\ [][(/\ last'.op = "borrow_book"
           /\ last'.member_id \in DOMAIN members
           /\ Holds(last'.member_id, last'.book_id))
          => (last'.result = "False" /\ UNCHANGED aggregate)]_vars

\* C4: a public call that is not carried out (it returns False, or ends in an
\* exception) leaves books, members, attendance records, daily counters and
\* the transaction log as they were.
C4_RejectedChangesNothing ==
    [][last'.result # "True" => UNCHANGED aggregate]_vars

\* C5: return_book(m, b) succeeds whenever m exists, b exists and b is in
\* m.borrowed_books; it then gives one copy back, drops m from borrowed_by,
\* drops one occurrence of b from borrowed_books and logs one RETURN.
C5_ReturnSucceeds ==
    [][(/\ last'.op = "return_book"
        /\ last'.member_id \in DOMAIN members
        /\ last'.book_id \in DOMAIN books
        /\ Holds(last'.member_id, last'.book_id))
       => LET m == last'.member_id
              b == last'.book_id
          IN  /\ last'.result = "True"
              /\ books'[b].available_copies = books[b].available_copies + 1
              /\ m \notin DOMAIN books'[b].borrowed_by
              /\ Len(members'[m].borrowed_books) = Len(members[m].borrowed_books) - 1
              /\ Logged("RETURN")]_vars

\* the four preconditions of borrow_book, written out
BorrowAllowed(m, b) ==
    /\ m \in DOMAIN members
    /\ b \in DOMAIN books
    /\ Len(members[m].borrowed_books) < members[m].max_books
    /\ books[b].available_copies > 0

\* C6: borrow_book(m, b) returns False and changes nothing unless m exists, b
\* exists, m holds fewer than max_books books and b has a copy available; when
\* it returns True one copy is taken, m is a key of borrowed_by, b is appended
\* to borrowed_books and one BORROW is logged.
C6_BorrowContract ==
    [][last'.op = "borrow_book"
       => LET m == last'.member_id
              b == last'.book_id
          IN  /\ ~BorrowAllowed(m, b)
                    => (last'.result = "False" /\ UNCHANGED aggregate)
              /\ last'.result = "True"
                    => /\ BorrowAllowed(m, b)
                       /\ books'[b].available_copies = books[b].available_copies - 1
                       /\ m \in DOMAIN books'[b].borrowed_by
                       /\ members'[m].borrowed_books
                             = Append(members[m].borrowed_books, b)
                       /\ Logged("BORROW")]_vars

\* a Regular member holding three books was refused a book that has a copy
C6_Witness ==
    /\ last.op = "borrow_book" /\ last.result = "False"
    /\ last.member_id \in DOMAIN members /\ last.book_id \in DOMAIN books
    /\ members[last.member_id].membership_type = "Regular"
    /\ Len(members[last.member_id].borrowed_books) = RegularMaxBooks
    /\ books[last.book_id].available_copies > 0

\* the limit of a membership type
LimitOf(membership_type) ==
    IF membership_type = "Premium" THEN PremiumMaxBooks ELSE RegularMaxBooks

\* C7: every member holds at most max_books books, max_books is 5 exactly for
\* a Premium member and 3 for any other, and a member's max_books never changes.
C7_BorrowLimit ==
    /\ [](\A m \in DOMAIN members :
            /\ Len(members[m].borrowed_books) <= members[m].max_books
            /\ members[m].max_books = LimitOf(members[m].membership_type))
    /\ [][\A m \in (DOMAIN members) \cap (DOMAIN members') :
            members'[m].max_books = members[m].max_books]_vars

\* a member of a type other than Regular and Premium holds three books
C7_Witness ==
    \E m \in DOMAIN members :
        /\ members[m].membership_type = "Student"
        /\ Len(members[m].borrowed_books) = members[m].max_books

\* C8: every book has total_copies >= 0 and 0 <= available_copies <= total_copies,
\* whatever integer copies add_book was given.
C8_CopiesInRange ==
    \A b \in DOMAIN books :
        /\ books[b].total_copies >= 0
        /\ 0 <= books[b].available_copies
        /\ books[b].available_copies <= books[b].total_copies

\* C9: every member_id in a book's borrowed_by is a member of the directory
\* whose borrowed_books contains that book.
C9_BorrowerExists ==
    \A b \in DOMAIN books : \A m \in DOMAIN books[b].borrowed_by :
        m \in DOMAIN members /\ Holds(m, b)

\* a member who holds a book was refused removal
C9_Witness ==
    /\ last.op = "remove_member" /\ last.result = "False"
    /\ \E b \in DOMAIN books : last.member_id \in DOMAIN books[b].borrowed_by

\* C10: a successful borrow_book(m, b) followed at once by return_book(m, b):
\* the return succeeds and b.available_copies and m.borrowed_books are what
\* they were before the borrow.
C10_BorrowReturnRoundTrip ==
    [][(/\ last.op = "borrow_book" /\ last.result = "True"
        /\ last'.op = "return_book"
        /\ last'.member_id = last.member_id
        /\ last'.book_id = last.book_id)
       => /\ last'.result = "True"
          /\ books'[last.book_id].available_copies = last.pre_available
          /\ members'[last.member_id].borrowed_books = last.pre_borrowed]_vars

\* C11: remove_book(b) returns False and changes nothing when b is absent or
\* has a copy on loan; a book leaves the catalog only when no member holds it
\* and its borrowed_by is empty.
C11_RemoveBookGuard ==
    [][/\ last'.op = "remove_book"
          => LET b == last'.book_id
             IN  (\/ b \notin DOMAIN books
                  \/ books[b].available_copies < books[b].total_copies)
                    => (last'.result = "False" /\ UNCHANGED aggregate)
       /\ \A b \in (DOMAIN books) \ (DOMAIN books') :
             /\ books[b].borrowed_by = <<>>
             /\ \A m \in DOMAIN members : ~Holds(m, b)]_vars

\* remove_book was refused for a book a member holds
C11_Witness ==
    /\ last.op = "remove_book" /\ last.result = "False"
    /\ last.book_id \in DOMAIN books
    /\ \E m \in DOMAIN members : Holds(m, last.book_id)

\* C12: remove_member(m) returns False and changes nothing when m is absent or
\* holds a book; a member leaves the directory only with empty borrowed_books.
C12_RemoveMemberGuard ==
    [][/\ last'.op = "remove_member"
          => LET m == last'.member_id
             IN  (m \notin DOMAIN members \/ members[m].borrowed_books # <<>>)
                    => (last'.result = "False" /\ UNCHANGED aggregate)
       /\ \A m \in (DOMAIN members) \ (DOMAIN members') :
             members[m].borrowed_books = <<>>]_vars

\* remove_member was refused for a member whose borrowed_books is not empty
\* although no borrowed_by names the member any more
C12_Witness ==
    /\ last.op = "remove_member" /\ last.result = "False"
    /\ last.member_id \in DOMAIN members
    /\ members[last.member_id].borrowed_books # <<>>
    /\ \A b \in DOMAIN books : last.member_id \notin DOMAIN books[b].borrowed_by

\* C13: add_book with an id already in the catalog, and add_member with an id
\* already in the directory, return False and leave everything as it was; a
\* successful add_book creates a book with available_copies = total_copies =
\* copies and an empty borrowed_by.
C13_AddContract ==
    [][/\ last'.op = "add_book"
          => LET b == last'.book_id
             IN  /\ b \in DOMAIN books
                    => (last'.result = "False" /\ UNCHANGED aggregate)
                 /\ last'.result = "True"
                    => /\ b \notin DOMAIN books
                       /\ books'[b].total_copies = last'.copies
                       /\ books'[b].available_copies = last'.copies
                       /\ books'[b].borrowed_by = <<>>
       /\ (last'.op = "add_member" /\ last'.member_id \in DOMAIN members)
          => (last'.result = "False" /\ UNCHANGED aggregate)]_vars

\* add_book was refused for the id of a book that has a borrower
C13_Witness ==
    /\ last.op = "add_book" /\ last.result = "False"
    /\ last.book_id \in DOMAIN books
    /\ books[last.book_id].borrowed_by # <<>>

\* the operations that log, and the tag each logs
LoggedOps ==
    {"add_book", "remove_book", "add_member", "remove_member",
     "borrow_book", "return_book"}

LogTag(op) ==
    CASE op = "add_book" -> "ADD_BOOK"
      [] op = "remove_book" -> "REMOVE_BOOK"
      [] op = "add_member" -> "ADD_MEMBER"
      [] op = "remove_member" -> "REMOVE_MEMBER"
      [] op = "borrow_book" -> "BORROW"
      [] op = "return_book" -> "RETURN"

\* C14: the log is append-only: a successful add or remove of a book or a
\* member, borrow or return appends exactly one entry with its own tag and
\* keeps the entries before it; a failed call and any other operation leave
\* the log as it was.
C14_LogAppendOnly ==
    [][IF last'.op \in LoggedOps /\ last'.result = "True"
       THEN Logged(LogTag(last'.op))
       ELSE transactions' = transactions]_vars

\* a RETURN was logged fourth, with a visitor on the attendance list
C14_Witness ==
    /\ Len(transactions) = 4
    /\ transactions[4].action = "RETURN"
    /\ attendance_records # <<>>

\* ---------------------------------------------------- attendance claims
\* the positions of the active records of a visitor_id
ActiveOf(records, v) ==
    {i \in 1..Len(records) : records[i].visitor_id = v /\ records[i].is_active}

\* the check-in operations and the visitor_type each fixes
CheckInOps == {"check_in_member", "check_in_visitor", "check_in_staff"}

TypeOf(op) ==
    CASE op = "check_in_member" -> "member"
      [] op = "check_in_visitor" -> "visitor"
      [] op = "check_in_staff" -> "staff"

\* the step is a call, which last' records, and not the passage of time
Called == now' = now

\* the call in last' is a check-in that reaches AttendanceTracker.check_in
ReachesCheckIn ==
    /\ Called
    /\ last'.op \in CheckInOps
    /\ last'.op = "check_in_member" => last'.visitor_id \in DOMAIN members

\* C15: for every visitor_id at most one attendance record is active.
C15_OneActiveRecord ==
    \A v \in VisitorIds : Cardinality(ActiveOf(attendance_records, v)) <= 1

\* a visitor is present again, next to the closed record of an earlier visit
C15_Witness ==
    /\ Len(attendance_records) = 2
    /\ attendance_records[1].visitor_id = attendance_records[2].visitor_id
    /\ ~attendance_records[1].is_active
    /\ attendance_records[2].is_active

\* C16: a check-in returns False exactly when the visitor_id has an active
\* record, of whatever type, and then that id still has exactly one active
\* record; a check-in after a check-out succeeds and adds a new record next to
\* the historical one.
C16_CheckInRejectsPresent ==
    [][ReachesCheckIn
       => LET v == last'.visitor_id
              present == ActiveOf(attendance_records, v) # {}
              visited == \E i \in 1..Len(attendance_records) :
                            attendance_records[i].visitor_id = v
          IN  /\ present
                    => /\ last'.result = "False"
                       /\ attendance_records' = attendance_records
                       /\ Len(SelectSeq(get_current_visitors(attendance_records'),
                                      LAMBDA r : r.visitor_id = v)) = 1
              /\ ~present => last'.result # "False"
              /\ (~present /\ visited)
                    => /\ last'.result = "True"
                       /\ Len(attendance_records') = Len(attendance_records) + 1
                       /\ SubSeq(attendance_records', 1, Len(attendance_records))
                             = attendance_records]_vars

\* C17: check_out(v) returns False and changes no record when v has no active
\* record; otherwise it returns True and changes exactly the active record of
\* v, setting its exit_time and clearing is_active; the daily counters stay.
C17_CheckOutContract ==
    [][(Called /\ last'.op = "check_out")
       => LET v == last'.visitor_id
              active == ActiveOf(attendance_records, v)
          IN  /\ daily_stats' = daily_stats
              /\ IF active = {}
                 THEN /\ last'.result = "False"
                      /\ attendance_records' = attendance_records
                 ELSE /\ last'.result = "True"
                      /\ \E i \in active :
                            attendance_records' =
                               [attendance_records EXCEPT
                                  ![i] = [@ EXCEPT !.exit_time = now,
                                                   !.is_active = FALSE]]]_vars

\* a second visit of one visitor was closed at a later time than the first,
\* whose record kept its exit_time
C17_Witness ==
    /\ last.op = "check_out" /\ last.result = "True"
    /\ Len(attendance_records) = 2
    /\ attendance_records[1].visitor_id = last.visitor_id
    /\ attendance_records[2].visitor_id = last.visitor_id
    /\ ~attendance_records[1].is_active /\ ~attendance_records[2].is_active
    /\ attendance_records[1].exit_time < attendance_records[2].exit_time

\* C18: a check-in of any type for an id with no active record returns True,
\* appends one active record of the type the calling method fixes, and adds
\* one to the total counter and to that type's counter of the current date.
C18_CheckInSucceeds ==
    [][(ReachesCheckIn /\ ActiveOf(attendance_records, last'.visitor_id) = {})
       => LET before == get_daily_stats(daily_stats, today(now))
              after == get_daily_stats(daily_stats', today(now))
              key == IF last'.op = "check_in_staff" THEN "staff"
                     ELSE IF last'.op = "check_in_member" THEN "members"
                     ELSE "visitors"
          IN  /\ last'.result = "True"
              /\ attendance_records' =
                    Append(attendance_records,
                           [visitor_id |-> last'.visitor_id,
                            visitor_type |-> TypeOf(last'.op),
                            entry_time |-> now, exit_time |-> None,
                            is_active |-> TRUE])
              /\ after.total_visitors = before.total_visitors + 1
              /\ after[key] = before[key] + 1]_vars

\* C19: every public call ends by returning True or False, never in an
\* exception.
C19_CallsReturnBoolean == last.result \in {"True", "False"}

\* the dates the clock can show, and one after them
Dates == 0 .. (today(MaxTime) + 1)

\* the records of a type entered on a date
EnteredOn(d, type) ==
    {i \in 1..Len(attendance_records) :
        /\ today(attendance_records[i].entry_time) = d
        /\ attendance_records[i].visitor_type = type}

\* C20: for every date the counters satisfy total = members + visitors +
\* staff, each type's counter is the number of records of that type entered
\* on the date, total is the number of records of get_daily_attendance, and a
\* date without check-ins has all four at zero.
C20_DailyStatsConsistent ==
    \A d \in Dates :
        LET st == get_daily_stats(daily_stats, d)
        IN  /\ st.total_visitors = st.members + st.visitors + st.staff
            /\ st.members = Cardinality(EnteredOn(d, "member"))
            /\ st.visitors = Cardinality(EnteredOn(d, "visitor"))
            /\ st.staff = Cardinality(EnteredOn(d, "staff"))
            /\ st.total_visitors = Len(get_daily_attendance(attendance_records, d))

\* C21: attendance records are never deleted and each is changed at most
\* once: the list only grows, a record is active exactly while its exit_time
\* is unset, and a closed record never changes again, whoever checks out.
C21_RecordsKeptAndClosedOnce ==
    /\ [](\A i \in 1..Len(attendance_records) :
             attendance_records[i].is_active
                <=> attendance_records[i].exit_time = None)
    /\ [][/\ Len(attendance_records') >= Len(attendance_records)
          /\ \A i \in 1..Len(attendance_records) :
                /\ attendance_records'[i].visitor_id = attendance_records[i].visitor_id
                /\ attendance_records'[i].visitor_type = attendance_records[i].visitor_type
                /\ attendance_records'[i].entry_time = attendance_records[i].entry_time
                /\ ~attendance_records[i].is_active
                      => attendance_records'[i] = attendance_records[i]]_vars

\* a visitor checked out on the first tick, came back, and on a later tick
\* was checked out again: the first record still carries its own exit_time
C21_Witness ==
    /\ Len(attendance_records) = 2
    /\ attendance_records[1].visitor_id = attendance_records[2].visitor_id
    /\ attendance_records[1].exit_time = 0
    /\ attendance_records[2].exit_time = now
    /\ now > 0
    /\ last.op = "check_out" /\ last.result = "True"

\* C22: check_in_member of an id that is not in the member directory returns
\* False, creates no attendance record and changes no counter.
C22_UnknownMemberNotCheckedIn ==
    [][(Called /\ last'.op = "check_in_member"
               /\ last'.visitor_id \notin DOMAIN members)
       => /\ last'.result = "False"
          /\ attendance_records' = attendance_records
          /\ daily_stats' = daily_stats]_vars

\* an id that is not present at the desk was refused while the directory
\* holds another member
C22_Witness ==
    /\ last.op = "check_in_member" /\ last.result = "False"
    /\ last.visitor_id \notin DOMAIN members
    /\ members # <<>>
    /\ ActiveOf(attendance_records, last.visitor_id) = {}

\* ---------------------------------------------------- concurrent borrows
\* no book has a negative number of available copies
RaceNoOversell ==
    \A b \in DOMAIN books : books[b].available_copies >= 0

\* of two calls for different members on a book of one copy at most one
\* returns True
RaceAtMostOneWinner ==
    \A t, u \in Threads :
        (/\ t # u
         /\ threads[t].book_id = "b1" /\ threads[u].book_id = "b1"
         /\ threads[t].member_id # threads[u].member_id
         /\ "b1" \in DOMAIN books /\ books["b1"].total_copies = 1)
           => ~(threads[t].result = "True" /\ threads[u].result = "True")

\* wherever a book names a borrower the member's list has the book
RaceNoHalfBorrow ==
    \A b \in DOMAIN books : \A m \in DOMAIN books[b].borrowed_by :
        m \in DOMAIN members /\ InList(members[m].borrowed_books, b)

\* C23: when two threads run borrow_book at once for two members on a book of
\* one copy, with their reads and writes interleaved, at most one call returns
\* True, available_copies never drops below 0, and no state that a concurrent
\* reader can see has borrowed_by updated and borrowed_books not.
C23_ConcurrentBorrowSafe ==
    /\ RaceAtMostOneWinner
    /\ RaceNoOversell
    /\ RaceNoHalfBorrow

\* ------------------------------------------------------- report claims
\* C24: get_overdue_books(days) emits one entry for exactly the (book,
\* borrower) pairs of borrowed_by whose borrow_date lies more than days days
\* before now, and days_overdue is the whole number of days elapsed since
\* borrow_date, not the days past the threshold.
C24_OverdueReport ==
    [][(Called /\ last'.op = "get_overdue_books")
       => LET days == last'.argument
              entries == last'.result
              due == {x \in (DOMAIN books) \X MemberIds :
                        /\ x[2] \in DOMAIN books[x[1]].borrowed_by
                        /\ now - books[x[1]].borrowed_by[x[2]] > days * TicksPerDay}
          IN  /\ Cardinality(entries) = Cardinality(due)
              /\ \A x \in due : \E e \in entries :
                    e.book_id = x[1] /\ e.member_id = x[2]
              /\ \A e \in entries :
                    /\ <<e.book_id, e.member_id>> \in due
                    /\ e.borrow_date = books[e.book_id].borrowed_by[e.member_id]
                    /\ e.days_overdue * TicksPerDay <= now - e.borrow_date
                    /\ now - e.borrow_date < (e.days_overdue + 1) * TicksPerDay]_vars

\* with days = 1, a loan of two and a half days is reported as 2 days overdue
\* and a loan of exactly one day is left out
C24_Witness ==
    /\ last.op = "get_overdue_books" /\ last.argument = 1
    /\ "b1" \in DOMAIN books
    /\ \E e \in last.result :
          /\ e.days_overdue = 2
          /\ now - e.borrow_date = 2 * TicksPerDay + 1
    /\ \E m \in DOMAIN books["b1"].borrowed_by :
          /\ now - books["b1"].borrowed_by[m] = TicksPerDay
          /\ \A e \in last.result : e.member_id # m

\* C25: get_transaction_history(limit) returns, in the order of the log, the
\* last min(limit, length) entries for every limit >= 1 and the whole log for
\* limit 0, and leaves the log as it was.
C25_HistoryIsLogSuffix ==
    [][(Called /\ last'.op = "get_transaction_history")
       => LET limit == last'.argument
              n == Len(transactions)
              k == IF limit = 0 \/ limit > n THEN n ELSE limit
          IN  /\ Len(last'.result) = k
              /\ \A i \in 1..k : last'.result[i] = transactions[n - k + i]
              /\ transactions' = transactions]_vars

\* the last two of four entries were asked for and returned, oldest first
C25_Witness ==
    /\ last.op = "get_transaction_history" /\ last.argument = 2
    /\ Len(transactions) = 4
    /\ last.result = <<transactions[3], transactions[4]>>
    /\ transactions[3].action # transactions[4].action
    /\ transactions[1].action # transactions[3].action

\* the records entered on date d at hour h
EnteredAt(d, h) ==
    {i \in 1..Len(attendance_records) :
        /\ today(attendance_records[i].entry_time) = d
        /\ hour(attendance_records[i].entry_time) = h}

\* C26: get_peak_hours(date) returns the histogram of the entry hours of the
\* date's records and a peak hour whose count is the largest of the
\* histogram, a tie going to the hour met first in record creation order; a
\* date with no records gives peak_hour 0 and peak_count 0.
C26_PeakHours ==
    [][(Called /\ last'.op = "get_peak_hours")
       => LET d == last'.argument
              r == last'.result
              items == r.hourly_breakdown
              hours == {h \in 0..(TicksPerDay - 1) : EnteredAt(d, h) # {}}
              First(h) == CHOOSE i \in EnteredAt(d, h) :
                             \A j \in EnteredAt(d, h) : i <= j
          IN  /\ {items[i][1] : i \in 1..Len(items)} = hours
              /\ Len(items) = Cardinality(hours)
              /\ \A i \in 1..Len(items) :
                    items[i][2] = Cardinality(EnteredAt(d, items[i][1]))
              /\ IF hours = {}
                 THEN r.peak_hour = 0 /\ r.peak_count = 0
                 ELSE /\ r.peak_hour \in hours
                      /\ r.peak_count = Cardinality(EnteredAt(d, r.peak_hour))
                      /\ \A h \in hours :
                            Cardinality(EnteredAt(d, h)) <= r.peak_count
                      /\ \A h \in hours :
                            Cardinality(EnteredAt(d, h)) = r.peak_count
                               => First(r.peak_hour) <= First(h)]_vars

\* two check-ins in one hour and a third in a later hour of the same day:
\* the peak is the first hour, with a count of 2
C26_Witness ==
    /\ last.op = "get_peak_hours"
    /\ Len(attendance_records) = 3
    /\ \A i \in 1..3 : today(attendance_records[i].entry_time) = last.argument
    /\ hour(attendance_records[2].entry_time) = hour(attendance_records[1].entry_time)
    /\ hour(attendance_records[3].entry_time) # hour(attendance_records[1].entry_time)
    /\ last.result.peak_hour = hour(attendance_records[1].entry_time)
    /\ last.result.peak_count = 2
    /\ Len(last.result.hourly_breakdown) = 2

\* C27: search_books(query, field) returns exactly the books whose chosen
\* field contains the query, in catalog insertion order, comparing without
\* regard to case for title, author and category and with regard to case for
\* isbn, the query as typed; an unrecognised field returns no books.
C27_SearchContract ==
    last.op = "search_books"
       => LET a == last.argument
              Matches(book) ==
                  CASE a.search_type = "title" ->
                          Contains(lower(a.query), lower(book.title))
                    [] a.search_type = "author" ->
                          Contains(lower(a.query), lower(book.author))
                    [] a.search_type = "category" ->
                          Contains(lower(a.query), lower(book.category))
                    [] a.search_type = "isbn" -> Contains(a.query, book.isbn)
                    [] OTHER -> FALSE
          IN  last.result = SelectSeq(a.values, Matches)

\* --------------------------------------------------- notification claims
SendOps == {"send_overdue_reminders", "send_notification", "send_bulk_notification"}

\* C28: with no notification service attached the two counting operations
\* return 0 and send_notification returns False, with no send attempted;
\* with a service attached a failed send neither stops the loop nor raises,
\* every recipient is attempted once and the count returned is the number of
\* delivered sends; none of the three changes the library.
C28_SendingContract ==
    [][(Called /\ last'.op \in SendOps)
       => LET r == last'
              n == Len(r.attempts)
              overdue == overdue_books(books, now, DefaultOverdueDays)
          IN  /\ UNCHANGED <<aggregate, notification_service>>
              /\ r.raised = "-"
              /\ IF ~notification_service
                 THEN /\ r.attempts = << >>
                      /\ r.result = IF r.op = "send_notification" THEN FALSE ELSE 0
                 ELSE CASE r.op = "send_bulk_notification" ->
                             /\ n = Cardinality(DOMAIN members)
                             /\ {r.attempts[i].to : i \in 1..n} = DOMAIN members
                             /\ r.result = Delivered(r.attempts)
                        [] r.op = "send_overdue_reminders" ->
                             /\ n = Cardinality(overdue)
                             /\ {r.attempts[i].to : i \in 1..n} = overdue
                             /\ r.result = Delivered(r.attempts)
                        [] r.op = "send_notification" ->
                             IF r.argument \in DOMAIN members
                             THEN /\ n = 1 /\ r.attempts[1].to = r.argument
                                  /\ r.result = r.attempts[1].delivered
                             ELSE n = 0 /\ r.result = FALSE]_vars

\* a bulk send to two members whose first send failed and whose second was
\* delivered
C28_Witness ==
    /\ notification_service
    /\ last.op = "send_bulk_notification"
    /\ Len(last.attempts) = 2
    /\ ~last.attempts[1].delivered /\ last.attempts[2].delivered
    /\ last.result = 1

\* reminders for two overdue loans, one delivered, the other not
C28_WitnessOverdue ==
    /\ notification_service
    /\ last.op = "send_overdue_reminders"
    /\ Len(last.attempts) = 2
    /\ last.result = 1

\* ------------------------------------------------- lending claims, again
\* the occurrences of book b in the borrowed_books lists of mems
Occurrences(mems, b) ==
    Cardinality({x \in (DOMAIN mems) \X (1..PremiumMaxBooks) :
                    /\ x[2] <= Len(mems[x[1]].borrowed_books)
                    /\ mems[x[1]].borrowed_books[x[2]] = b})

\* C29: for every book of the catalog available_copies equals total_copies
\* less the occurrences of its id in all members' borrowed_books lists,
\* duplicates counted; a successful borrow or return moves both sides by one.
C29_CopiesMatchLists ==
    /\ [](\A b \in DOMAIN books :
             books[b].available_copies
                = books[b].total_copies - Occurrences(members, b))
    /\ [][(last'.op \in {"borrow_book", "return_book"} /\ last'.result = "True")
          => LET b == last'.book_id
                 step == IF last'.op = "borrow_book" THEN 1 ELSE 0 - 1
             IN  /\ books'[b].available_copies = books[b].available_copies - step
                 /\ Occurrences(members', b) = Occurrences(members, b) + step]_vars

\* a member holds two copies of one book, both counted
C29_Witness ==
    /\ "b1" \in DOMAIN books /\ "m1" \in DOMAIN members
    /\ members["m1"].borrowed_books = <<"b1", "b1">>
    /\ DOMAIN books["b1"].borrowed_by = {"m1"}
    /\ books["b1"].available_copies = 0
    /\ books["b1"].total_copies = 2

LendingOps == {"add_book", "remove_book", "add_member", "remove_member",
               "borrow_book", "return_book"}

\* C31: the check-ins and check_out leave books, members and the transaction
\* log unchanged, and the six lending operations leave the attendance records
\* and the daily counters unchanged; the active record of a member who has
\* been removed stays in place and can still be checked out.
C31_AttendanceLendingIndependent ==
    [][/\ (last'.op \in CheckInOps \cup {"check_out"})
             => UNCHANGED <<books, members, transactions>>
       /\ last'.op \in LendingOps
             => UNCHANGED <<attendance_records, daily_stats>>
       /\ (/\ last'.op = "check_out"
           /\ last'.visitor_id \notin DOMAIN members
           /\ ActiveOf(attendance_records, last'.visitor_id) # {})
             => /\ last'.result = "True"
                /\ ActiveOf(attendance_records', last'.visitor_id) = {}]_vars

\* a member checked in, was removed from the directory, and was then checked
\* out of the record the check-in had made
C31_Witness ==
    /\ last.op = "check_out" /\ last.result = "True"
    /\ last.visitor_id \notin DOMAIN members
    /\ \E i \in 1..Len(attendance_records) :
          /\ attendance_records[i].visitor_id = last.visitor_id
          /\ attendance_records[i].visitor_type = "member"
          /\ ~attendance_records[i].is_active
    /\ transactions # << >>
    /\ transactions[Len(transactions)].action = "REMOVE_MEMBER"

====
